---- MODULE Spec2Model ----
(***************************************************************************)
(* The web3.py example scripts of intuition-contracts-v2                    *)
(* (src/examples/python): create-atom, create-triple, deposit-vault,        *)
(* redeem-shares and claim-rewards, each run against one ledger.            *)
(*                                                                          *)
(* A behaviour is one run of one script (op) from an arbitrary ledger       *)
(* state.  Every RPC the script makes is one step: the read or the          *)
(* submission together with the local code that follows it up to the next   *)
(* RPC.  Between two steps of the script the ledger may include a pending   *)
(* transaction, another account may create a term, and the price of the     *)
(* bonding curve may move.                                                  *)
(*                                                                          *)
(* Token amounts are in whole tokens (the scripts' Web3.to_wei(n, 'ether')  *)
(* is n here).                                                              *)
(*                                                                          *)
(* event-indexer.py has a specification of its own (SpecIndexer): one run   *)
(* of main() in one of its modes over the ledger's event log; SpecLive is   *)
(* Spec with the script's own steps taken whenever they can be.             *)
(***************************************************************************)
EXTENDS Integers, Sequences, FiniteSets

\* ---------------------------------------------------------------- bounds
\* The creation cost the ledger answers is in 0..MaxCost.
MaxCost == 2
\* The account holds 0..MaxShares shares of the vault when the run starts.
MaxShares == 6
\* The bonded balance and the claimable rewards of the account are in 0..MaxRewards.
MaxRewards == 2

\* ------------------------------------------------- configuration of the scripts
ATOM_DATA == "My First Atom"
ATOM_DEPOSIT_AMOUNT == 10
SUBJECT_ID == 1
PREDICATE_ID == 2
OBJECT_ID == 3
TRIPLE_DEPOSIT_AMOUNT == 20
TERM_ID == 1
CURVE_ID == 1
DEPOSIT_AMOUNT == 5
SHARES_TO_REDEEM == 5
SLIPPAGE_BPS == 100

\* SLIPPAGE_BPS is a configuration line of deposit-vault.py and redeem-shares.py;
\* a run takes the configured value or one of these other settings of that line.
SlippageSettings == {0, 1, SLIPPAGE_BPS, 9999, 10000, 12000}

\* The multipliers the bonding curve may be at (previewDeposit and previewRedeem
\* are the ledger's own pricing; the scripts only call them).
Rates == {0, 1, 199, 200}

OpKinds == {"createAtom", "createTriple", "deposit", "redeem", "claimRewards"}

VARIABLES
  \* the ledger
  created,          \* the term ids isTermCreated answers TRUE for
  tokenBalance,     \* WTRUST balanceOf(account)
  allowance,        \* WTRUST allowance(account, multivault)
  txCount,          \* get_transaction_count(account): transactions of the account included
  txStatus,         \* txStatus[h]: "pending", "success", "failed" or "dropped" for hash h
  vaultShares,      \* getShares(account, TERM_ID, CURVE_ID)
  rate,             \* the bonding curve's current multiplier
  atomCost,         \* getAtomCost()
  tripleCost,       \* getTripleCost()
  bondedBalance,    \* getUserInfo(account)[5]
  claimableRewards, \* getUserCurrentClaimableRewards(account)
  \* the run of the script
  op,               \* which script runs
  slippageBps,      \* its SLIPPAGE_BPS setting
  pc,               \* where the script is
  local,            \* the script's local variables
  built,            \* the transaction built and not yet sent
  submitted,        \* submitted[h]: the transaction sent with hash h
  outcome,          \* how main() ended
  \* the chain's event log and the run of event-indexer.py
  blockNumber,      \* w3.eth.block_number
  chainLogs,        \* the logs of the chain, in ledger order
  nodeFilter,       \* the filter w3.eth.filter installed on the node
  ix                \* the indexer's local variables and what it printed

ledgerVars == <<created, tokenBalance, allowance, txCount, txStatus, vaultShares,
                rate, atomCost, tripleCost, bondedBalance, claimableRewards>>
scriptVars == <<op, slippageBps, pc, local, built, submitted, outcome>>
vars == <<created, tokenBalance, allowance, txCount, txStatus, vaultShares,
          rate, atomCost, tripleCost, bondedBalance, claimableRewards,
          op, slippageBps, pc, local, built, submitted, outcome,
          blockNumber, chainLogs, nodeFilter, ix>>
indexerVars == <<blockNumber, chainLogs, nodeFilter, ix>>

\* ---------------------------------------------------------------- helpers
NoTx == [kind |-> "none", nonce |-> 0, amount |-> 0, bound |-> 0,
         term |-> 0, curve |-> 0]

ValueKinds == {"createAtoms", "createTriples", "deposit", "redeem", "claimRewards"}

\* The outcomes in which main() raised (the script prints the error and exits 1).
ErrorOutcomes == {"InsufficientBalance", "AtomMissing", "VaultMissing",
                  "TimeExhausted", "SendRejected", "EncodeError"}
\* The outcomes in which main() returned early without raising.
NoOpOutcomes == {"AlreadyExists", "NoShares", "NoBondedBalance", "NoClaimable"}

Min(a, b) == IF a <= b THEN a ELSE b

\* calculateAtomId / calculateTripleId: the ledger's pure id functions (digests).
calculateAtomId(data) == 1000 + Len(data)
calculateTripleId(s, p, o) == 2000 + 100 * s + 10 * p + o

ATOM_ID == calculateAtomId(ATOM_DATA)
TRIPLE_ID == calculateTripleId(SUBJECT_ID, PREDICATE_ID, OBJECT_ID)
TripleRefs == <<SUBJECT_ID, PREDICATE_ID, OBJECT_ID>>

isTermCreated(id) == id \in created

\* previewDeposit(termId, curveId, assets)[0] and previewRedeem(termId, curveId, shares)[0].
previewDeposit(assets) == assets * rate
previewRedeem(shares) == shares * rate

\* The slippage tolerance added instead of subtracted.
SlippageBoundAdded(expected, bps) == (expected * (10000 + bps)) \div 10000

\* The division rounded up instead of down.
SlippageBoundCeil(expected, bps) == 0 - ((0 - expected * (10000 - bps)) \div 10000)

\* expected * (10000 - SLIPPAGE_BPS) // 10000  (Python's // floors).
SlippageBound(expected, bps) == (expected * (10000 - bps)) \div 10000

\* The amount of WTRUST the value-moving transaction of a script takes.
Required(k) ==
  CASE k = "createAtom"   -> ATOM_DEPOSIT_AMOUNT + atomCost
    [] k = "createTriple" -> TRIPLE_DEPOSIT_AMOUNT + tripleCost
    [] k = "deposit"      -> DEPOSIT_AMOUNT
    [] OTHER              -> 0

\* No filter installed on the node; the indexer's variables before main() runs.
NoFilter == [installed |-> FALSE, first |-> 0, next |-> 0]

InitIx == [user_address |-> <<>>, from_block |-> 0, to_block |-> 0,
           events |-> <<>>, queries |-> <<>>, first_atom |-> <<>>,
           batch |-> <<>>, printed |-> <<>>, interrupted |-> FALSE]

InitLocal == [wtrust_balance |-> 0, total_required |-> 0, current_allowance |-> 0,
              i |-> 1, expected |-> 0, min_bound |-> 0, current_shares |-> 0,
              shares_to_redeem |-> 0, new_shares |-> 0, bonded_balance |-> 0,
              claimable |-> 0, tx_hash |-> 0, previewed |-> <<>>,
              atom_created_event |-> <<>>, term_exists |-> "unread",
              approve_receipt |-> "none", receipt |-> "none"]

\* The balances and allowances a run of script k may start from: nothing, or
\* around what the script needs.
StartAmounts(k) ==
  LET d == CASE k = "createAtom"   -> ATOM_DEPOSIT_AMOUNT
             [] k = "createTriple" -> TRIPLE_DEPOSIT_AMOUNT
             [] k = "deposit"      -> DEPOSIT_AMOUNT
             [] OTHER              -> 0
      c == IF k = "deposit" THEN 0 ELSE MaxCost
  IN IF d = 0 THEN {0} ELSE {0} \cup ((d - 1) .. (d + c + 1))

\* The terms a run of script k reads; a triple is created only over created atoms.
StartCreated(k) ==
  CASE k = "createAtom"   -> {{}, {ATOM_ID}}
    [] k = "createTriple" ->
         {S \in SUBSET {SUBJECT_ID, PREDICATE_ID, OBJECT_ID, TRIPLE_ID} :
            TRIPLE_ID \in S => {SUBJECT_ID, PREDICATE_ID, OBJECT_ID} \subseteq S}
    [] k = "deposit"      -> {{}, {TERM_ID}}
    [] OTHER              -> {{TERM_ID}}

Init ==
  /\ op \in OpKinds
  /\ created \in StartCreated(op)
  /\ tokenBalance \in StartAmounts(op)
  /\ allowance \in StartAmounts(op)
  /\ txCount = 0
  /\ txStatus = <<>>
  /\ vaultShares \in (CASE op = "redeem"  -> 0 .. MaxShares
                        [] op = "deposit" -> {0, MaxShares}
                        [] OTHER          -> {0})
  /\ rate \in (IF op \in {"deposit", "redeem"} THEN Rates ELSE {1})
  /\ atomCost \in (IF op = "createAtom" THEN 0 .. MaxCost ELSE {0})
  /\ tripleCost \in (IF op = "createTriple" THEN 0 .. MaxCost ELSE {0})
  /\ bondedBalance \in (IF op = "claimRewards" THEN 0 .. MaxRewards ELSE {0})
  /\ claimableRewards \in (IF op = "claimRewards" THEN 0 .. MaxRewards ELSE {0})
  /\ slippageBps \in (IF op \in {"deposit", "redeem"} THEN SlippageSettings ELSE {SLIPPAGE_BPS})
  /\ pc = "start"
  /\ local = InitLocal
  /\ built = NoTx
  /\ submitted = <<>>
  /\ outcome = "running"
  /\ blockNumber = 0
  /\ chainLogs = <<>>
  /\ nodeFilter = NoFilter
  /\ ix = InitIx

\* ------------------------------------------------------- steps shared by the scripts
\* A step of the script changes nothing on the ledger (a submission adds the
\* transaction to the node's pool) and never its own configuration.
ScriptOnly ==
  UNCHANGED <<created, tokenBalance, allowance, txCount, vaultShares, rate,
              atomCost, tripleCost, bondedBalance, claimableRewards, op, slippageBps,
              blockNumber, chainLogs, nodeFilter, ix>>

\* main() raises: the script prints the error and exits.
Raise(e) == /\ pc' = "done"
            /\ outcome' = e

\* main() returns.
Return(o) == /\ pc' = "done"
             /\ outcome' = o

\* fn(...).build_transaction({'from', 'nonce': get_transaction_count(account), 'gas', 'gasPrice'}):
\* the nonce is the count of included transactions; a negative uint256 argument
\* is refused by the encoder.
BuildVaultTransaction(kind, term, curve, amount, bound, next) ==
  IF bound < 0 \/ amount < 0
    THEN /\ Raise("EncodeError")
         /\ UNCHANGED <<built, local, submitted>>
    ELSE /\ built' = [kind |-> kind, nonce |-> txCount, amount |-> amount, bound |-> bound,
                      term |-> term, curve |-> curve]
         /\ pc' = next
         /\ UNCHANGED <<local, submitted, outcome>>

\* The same for a call that names no vault.
BuildTransaction(kind, amount, bound, next) ==
  BuildVaultTransaction(kind, 0, 0, amount, bound, next)

\* The hashes of the account's transactions waiting in the node's pool with nonce n.
PendingWithNonce(n) ==
  {h \in 1 .. Len(submitted) : txStatus[h] = "pending" /\ submitted[h].nonce = n}

\* account.sign_transaction(tx); w3.eth.send_raw_transaction(signed.rawTransaction).
\* The node refuses a nonce that is already used up, and refuses or takes as a
\* replacement (gasPrice is read anew for every transaction) a nonce that a
\* waiting transaction of the account carries.
SendRawTransaction(next) ==
  LET h == Len(submitted) + 1
      accept(status) ==
        /\ submitted' = Append(submitted, built)
        /\ txStatus' = Append(status, "pending")
        /\ local' = [local EXCEPT !.tx_hash = h]
        /\ built' = NoTx
        /\ pc' = next
        /\ UNCHANGED outcome
      reject ==
        /\ Raise("SendRejected")
        /\ UNCHANGED <<submitted, txStatus, local, built>>
  IN IF built.nonce < txCount
       THEN reject
       ELSE IF PendingWithNonce(built.nonce) = {}
         THEN accept(txStatus)
         ELSE \/ reject
              \/ accept([g \in 1 .. Len(txStatus) |->
                           IF g \in PendingWithNonce(built.nonce) THEN "dropped"
                           ELSE txStatus[g]])

\* receipt = w3.eth.wait_for_transaction_receipt(hash): returns the receipt of an
\* included transaction whatever its status, and raises TimeExhausted when the
\* transaction is not included within the timeout.
ReceiptReady(h) == txStatus[h] \in {"success", "failed"}

\* ------------------------------------------------------------ the ledger
\* Whether the contract call of transaction tx goes through at the current state.
Executes(tx) ==
  CASE tx.kind = "approve" -> TRUE
    [] tx.kind = "createAtoms" ->
         /\ ~ isTermCreated(ATOM_ID)
         /\ allowance >= tx.amount + atomCost
         /\ tokenBalance >= tx.amount + atomCost
    [] tx.kind = "createTriples" ->
         /\ \A j \in 1 .. 3 : isTermCreated(TripleRefs[j])
         /\ ~ isTermCreated(TRIPLE_ID)
         /\ allowance >= tx.amount + tripleCost
         /\ tokenBalance >= tx.amount + tripleCost
    [] tx.kind = "deposit" ->
         /\ isTermCreated(TERM_ID)
         /\ allowance >= tx.amount
         /\ tokenBalance >= tx.amount
         /\ previewDeposit(tx.amount) >= tx.bound
    [] tx.kind = "redeem" ->
         /\ tx.amount > 0
         /\ tx.amount <= vaultShares
         /\ previewRedeem(tx.amount) >= tx.bound
    [] tx.kind = "claimRewards" ->
         /\ bondedBalance > 0
         /\ claimableRewards > 0
    [] OTHER -> FALSE

\* The state change of a successful call.
Apply(tx) ==
  CASE tx.kind = "approve" ->
         /\ allowance' = tx.amount
         /\ UNCHANGED <<created, tokenBalance, vaultShares, claimableRewards>>
    [] tx.kind = "createAtoms" ->
         /\ created' = created \cup {ATOM_ID}
         /\ tokenBalance' = tokenBalance - (tx.amount + atomCost)
         /\ allowance' = allowance - (tx.amount + atomCost)
         /\ UNCHANGED <<vaultShares, claimableRewards>>
    [] tx.kind = "createTriples" ->
         /\ created' = created \cup {TRIPLE_ID}
         /\ tokenBalance' = tokenBalance - (tx.amount + tripleCost)
         /\ allowance' = allowance - (tx.amount + tripleCost)
         /\ UNCHANGED <<vaultShares, claimableRewards>>
    [] tx.kind = "deposit" ->
         /\ tokenBalance' = tokenBalance - tx.amount
         /\ allowance' = allowance - tx.amount
         /\ vaultShares' = vaultShares + previewDeposit(tx.amount)
         /\ UNCHANGED <<created, claimableRewards>>
    [] tx.kind = "redeem" ->
         /\ vaultShares' = vaultShares - tx.amount
         /\ tokenBalance' = tokenBalance + previewRedeem(tx.amount)
         /\ UNCHANGED <<created, allowance, claimableRewards>>
    [] tx.kind = "claimRewards" ->
         /\ tokenBalance' = tokenBalance + claimableRewards
         /\ claimableRewards' = 0
         /\ UNCHANGED <<created, allowance, vaultShares>>

\* The ledger includes the waiting transaction that carries the account's next
\* nonce.  The call fails when the contract refuses it or when the fixed gas
\* limit does not cover it (gasOk = FALSE); a failed call changes nothing but
\* the nonce.
Include ==
  \E h \in 1 .. Len(submitted), gasOk \in BOOLEAN :
    /\ txStatus[h] = "pending"
    /\ submitted[h].nonce = txCount
    /\ txCount' = txCount + 1
    /\ IF gasOk /\ Executes(submitted[h])
         THEN /\ txStatus' = [txStatus EXCEPT ![h] = "success"]
              /\ Apply(submitted[h])
         ELSE /\ txStatus' = [txStatus EXCEPT ![h] = "failed"]
              /\ UNCHANGED <<created, tokenBalance, allowance, vaultShares, claimableRewards>>
    /\ UNCHANGED <<rate, atomCost, tripleCost, bondedBalance>>
    /\ UNCHANGED scriptVars
    /\ UNCHANGED indexerVars

\* The terms another account may create while the script runs.
OtherTerms ==
  CASE op = "createAtom"   -> {ATOM_ID}
    [] op = "createTriple" -> {SUBJECT_ID, PREDICATE_ID, OBJECT_ID, TRIPLE_ID}
    [] op = "deposit"      -> {TERM_ID}
    [] OTHER               -> {}

\* Another account creates a term (a triple only over created atoms).
OtherCreates ==
  \E t \in OtherTerms \ created :
    /\ pc # "done"
    /\ t = TRIPLE_ID => \A j \in 1 .. 3 : isTermCreated(TripleRefs[j])
    /\ created' = created \cup {t}
    /\ UNCHANGED <<tokenBalance, allowance, txCount, txStatus, vaultShares, rate,
                   atomCost, tripleCost, bondedBalance, claimableRewards>>
    /\ UNCHANGED scriptVars
    /\ UNCHANGED indexerVars

\* Other accounts trade in the vault: the price of the curve moves.
PriceMoves ==
  \E r \in Rates \ {rate} :
    /\ op \in {"deposit", "redeem"}
    /\ pc # "done"
    /\ rate' = r
    /\ UNCHANGED <<created, tokenBalance, allowance, txCount, txStatus, vaultShares,
                   atomCost, tripleCost, bondedBalance, claimableRewards>>
    /\ UNCHANGED scriptVars
    /\ UNCHANGED indexerVars

\* ------------------------------------------------------------ create-atom.py
\* Step 3: wtrust.functions.balanceOf(account.address).call()
A_ReadBalance ==
  /\ op = "createAtom" /\ pc = "start"
  /\ local' = [local EXCEPT !.wtrust_balance = tokenBalance]
  /\ pc' = "A_cost"
  /\ UNCHANGED <<built, submitted, outcome, txStatus>>
  /\ ScriptOnly

\* Step 3: getAtomCost(), total_required, the balance check.
A_ReadCost ==
  /\ op = "createAtom" /\ pc = "A_cost"
  /\ local' = [local EXCEPT !.total_required = ATOM_DEPOSIT_AMOUNT + atomCost]
  /\ IF local.wtrust_balance < ATOM_DEPOSIT_AMOUNT + atomCost
       THEN Raise("InsufficientBalance")
       ELSE pc' = "A_exists" /\ UNCHANGED outcome
  /\ UNCHANGED <<built, submitted, txStatus>>
  /\ ScriptOnly

\* The check made and its answer not acted upon.
A_CheckExistsIgnored ==
  /\ op = "createAtom" /\ pc = "A_exists"
  /\ local' = [local EXCEPT !.term_exists =
                  IF isTermCreated(calculateAtomId(ATOM_DATA)) THEN "created" ELSE "absent"]
  /\ pc' = "A_allowance"
  /\ UNCHANGED <<outcome, built, submitted, txStatus>>
  /\ ScriptOnly

\* Step 4: calculateAtomId(ATOM_DATA), isTermCreated(atom_id).
A_CheckExists ==
  /\ op = "createAtom" /\ pc = "A_exists"
  /\ local' = [local EXCEPT !.term_exists =
                  IF isTermCreated(calculateAtomId(ATOM_DATA)) THEN "created" ELSE "absent"]
  /\ IF isTermCreated(calculateAtomId(ATOM_DATA))
       THEN Return("AlreadyExists")
       ELSE pc' = "A_allowance" /\ UNCHANGED outcome
  /\ UNCHANGED <<built, submitted, txStatus>>
  /\ ScriptOnly

\* Step 5: allowance(account, multivault) and the test current_allowance < total_required.
A_ReadAllowance ==
  /\ op = "createAtom" /\ pc = "A_allowance"
  /\ local' = [local EXCEPT !.current_allowance = allowance]
  /\ pc' = IF allowance < local.total_required THEN "A_approve_build" ELSE "A_create_build"
  /\ UNCHANGED <<built, submitted, outcome, txStatus>>
  /\ ScriptOnly

\* An approval of twice what the operation requires.
A_BuildApproveDouble ==
  /\ op = "createAtom" /\ pc = "A_approve_build"
  /\ BuildTransaction("approve", 2 * local.total_required, 0, "A_approve_send")
  /\ UNCHANGED txStatus
  /\ ScriptOnly

\* Step 5: approve(multivault, total_required).build_transaction(...)
A_BuildApprove ==
  /\ op = "createAtom" /\ pc = "A_approve_build"
  /\ BuildTransaction("approve", local.total_required, 0, "A_approve_send")
  /\ UNCHANGED txStatus
  /\ ScriptOnly

\* Step 5: sign and send the approval.
A_SendApprove ==
  /\ op = "createAtom" /\ pc = "A_approve_send"
  /\ SendRawTransaction("A_approve_wait")
  /\ ScriptOnly

\* Step 5: approve_receipt = wait_for_transaction_receipt(approve_hash); its
\* status is not read.
A_WaitApprove ==
  /\ op = "createAtom" /\ pc = "A_approve_wait"
  /\ IF ReceiptReady(local.tx_hash)
       THEN /\ local' = [local EXCEPT !.approve_receipt = txStatus[local.tx_hash]]
            /\ pc' = "A_create_build"
            /\ UNCHANGED outcome
       ELSE /\ Raise("TimeExhausted")
            /\ UNCHANGED local
  /\ UNCHANGED <<built, submitted, txStatus>>
  /\ ScriptOnly

\* Step 6: createAtoms([ATOM_DATA], [DEPOSIT_AMOUNT]).build_transaction(...)
A_BuildCreate ==
  /\ op = "createAtom" /\ pc = "A_create_build"
  /\ BuildTransaction("createAtoms", ATOM_DEPOSIT_AMOUNT, 0, "A_create_send")
  /\ UNCHANGED txStatus
  /\ ScriptOnly

\* Step 6: sign and send the creation.
A_SendCreate ==
  /\ op = "createAtom" /\ pc = "A_create_send"
  /\ SendRawTransaction("A_create_wait")
  /\ ScriptOnly

\* The AtomCreated events of the vault that the receipt of transaction h holds:
\* none when the call reverted; one, or none that the script's ABI decodes,
\* when it went through.
AtomCreatedEvents(h) ==
  IF txStatus[h] = "success"
    THEN {<<>>, <<[creator |-> "account", termId |-> ATOM_ID]>>}
    ELSE {<<>>}

\* The script taking a receipt without AtomCreated event for a failure.
A_WaitCreateStrict ==
  /\ op = "createAtom" /\ pc = "A_create_wait"
  /\ IF ReceiptReady(local.tx_hash)
       THEN \E events \in AtomCreatedEvents(local.tx_hash) :
              /\ local' = [local EXCEPT !.receipt = txStatus[local.tx_hash],
                                        !.atom_created_event = events]
              /\ IF events = <<>> THEN Raise("EventMissing") ELSE Return("Success")
       ELSE /\ Raise("TimeExhausted")
            /\ UNCHANGED local
  /\ UNCHANGED <<built, submitted, txStatus>>
  /\ ScriptOnly

\* Step 6 and 7: receipt = wait_for_transaction_receipt(create_hash), "Transaction
\* confirmed"; atom_created_event = AtomCreated().process_receipt(receipt),
\* printed if there is one; "Atom creation successful!".
A_WaitCreate ==
  /\ op = "createAtom" /\ pc = "A_create_wait"
  /\ IF ReceiptReady(local.tx_hash)
       THEN \E events \in AtomCreatedEvents(local.tx_hash) :
              /\ local' = [local EXCEPT !.receipt = txStatus[local.tx_hash],
                                        !.atom_created_event = events]
              /\ Return("Success")
       ELSE /\ Raise("TimeExhausted")
            /\ UNCHANGED local
  /\ UNCHANGED <<built, submitted, txStatus>>
  /\ ScriptOnly

CreateAtom ==
  \/ A_ReadBalance \/ A_ReadCost \/ A_CheckExists \/ A_ReadAllowance
  \/ A_BuildApprove \/ A_SendApprove \/ A_WaitApprove
  \/ A_BuildCreate \/ A_SendCreate \/ A_WaitCreate

\* ---------------------------------------------------------- create-triple.py
\* The loop stopping one short: OBJECT_ID is not verified.
T_VerifyAtomsFirstTwo ==
  /\ op = "createTriple" /\ pc = "start"
  /\ IF ~ isTermCreated(TripleRefs[local.i])
       THEN /\ Raise("AtomMissing")
            /\ UNCHANGED local
       ELSE /\ local' = [local EXCEPT !.i = local.i + 1]
            /\ pc' = IF local.i = 2 THEN "T_exists" ELSE "start"
            /\ UNCHANGED outcome
  /\ UNCHANGED <<built, submitted, txStatus>>
  /\ ScriptOnly

\* "Verify atoms exist": one isTermCreated call per turn of the loop over
\* [SUBJECT_ID, PREDICATE_ID, OBJECT_ID].
T_VerifyAtoms ==
  /\ op = "createTriple" /\ pc = "start"
  /\ IF ~ isTermCreated(TripleRefs[local.i])
       THEN /\ Raise("AtomMissing")
            /\ UNCHANGED local
       ELSE /\ local' = [local EXCEPT !.i = local.i + 1]
            /\ pc' = IF local.i = 3 THEN "T_exists" ELSE "start"
            /\ UNCHANGED outcome
  /\ UNCHANGED <<built, submitted, txStatus>>
  /\ ScriptOnly

\* calculateTripleId(SUBJECT_ID, PREDICATE_ID, OBJECT_ID), isTermCreated(triple_id).
T_CheckExists ==
  /\ op = "createTriple" /\ pc = "T_exists"
  /\ local' = [local EXCEPT !.term_exists =
                  IF isTermCreated(calculateTripleId(SUBJECT_ID, PREDICATE_ID, OBJECT_ID))
                    THEN "created" ELSE "absent"]
  /\ IF isTermCreated(calculateTripleId(SUBJECT_ID, PREDICATE_ID, OBJECT_ID))
       THEN Return("AlreadyExists")
       ELSE pc' = "T_cost" /\ UNCHANGED outcome
  /\ UNCHANGED <<built, submitted, txStatus>>
  /\ ScriptOnly

\* getTripleCost(), total_amount.
T_ReadCost ==
  /\ op = "createTriple" /\ pc = "T_cost"
  /\ local' = [local EXCEPT !.total_required = TRIPLE_DEPOSIT_AMOUNT + tripleCost]
  /\ pc' = "T_approve_build"
  /\ UNCHANGED <<built, submitted, outcome, txStatus>>
  /\ ScriptOnly

\* approve(multivault, total_amount).build_transaction(...): no allowance is read.
T_BuildApprove ==
  /\ op = "createTriple" /\ pc = "T_approve_build"
  /\ BuildTransaction("approve", local.total_required, 0, "T_approve_send")
  /\ UNCHANGED txStatus
  /\ ScriptOnly

\* Sign and send the approval; the script goes on without waiting for it.
T_SendApprove ==
  /\ op = "createTriple" /\ pc = "T_approve_send"
  /\ SendRawTransaction("T_create_build")
  /\ ScriptOnly

\* createTriples([SUBJECT_ID], [PREDICATE_ID], [OBJECT_ID], [DEPOSIT_AMOUNT]).build_transaction(...)
T_BuildCreate ==
  /\ op = "createTriple" /\ pc = "T_create_build"
  /\ BuildTransaction("createTriples", TRIPLE_DEPOSIT_AMOUNT, 0, "T_create_send")
  /\ UNCHANGED txStatus
  /\ ScriptOnly

T_SendCreate ==
  /\ op = "createTriple" /\ pc = "T_create_send"
  /\ SendRawTransaction("T_create_wait")
  /\ ScriptOnly

\* receipt = wait_for_transaction_receipt(tx_hash), "Confirmed in block".
T_WaitCreate ==
  /\ op = "createTriple" /\ pc = "T_create_wait"
  /\ IF ReceiptReady(local.tx_hash)
       THEN /\ local' = [local EXCEPT !.receipt = txStatus[local.tx_hash]]
            /\ Return("Success")
       ELSE /\ Raise("TimeExhausted")
            /\ UNCHANGED local
  /\ UNCHANGED <<built, submitted, txStatus>>
  /\ ScriptOnly

CreateTriple ==
  \/ T_VerifyAtoms \/ T_CheckExists \/ T_ReadCost
  \/ T_BuildApprove \/ T_SendApprove
  \/ T_BuildCreate \/ T_SendCreate \/ T_WaitCreate

\* ---------------------------------------------------------- deposit-vault.py
\* The deposit script without its check of the vault.
D_CheckExistsSkipped ==
  /\ op = "deposit" /\ pc = "start"
  /\ pc' = "D_shares"
  /\ UNCHANGED <<outcome, local, built, submitted, txStatus>>
  /\ ScriptOnly

\* "Verify vault exists": isTermCreated(TERM_ID).
D_CheckExists ==
  /\ op = "deposit" /\ pc = "start"
  /\ IF ~ isTermCreated(TERM_ID)
       THEN Raise("VaultMissing")
       ELSE pc' = "D_shares" /\ UNCHANGED outcome
  /\ UNCHANGED <<local, built, submitted, txStatus>>
  /\ ScriptOnly

\* current_shares = getShares(account, TERM_ID, CURVE_ID)
D_ReadShares ==
  /\ op = "deposit" /\ pc = "D_shares"
  /\ local' = [local EXCEPT !.current_shares = vaultShares]
  /\ pc' = "D_preview"
  /\ UNCHANGED <<built, submitted, outcome, txStatus>>
  /\ ScriptOnly

\* expected_shares, _ = previewDeposit(TERM_ID, CURVE_ID, DEPOSIT_AMOUNT); min_shares.
D_Preview ==
  /\ op = "deposit" /\ pc = "D_preview"
  /\ local' = [local EXCEPT !.previewed = <<TERM_ID, CURVE_ID, DEPOSIT_AMOUNT>>,
                            !.expected = previewDeposit(DEPOSIT_AMOUNT),
                            !.min_bound = SlippageBound(previewDeposit(DEPOSIT_AMOUNT), slippageBps)]
  /\ pc' = "D_approve_build"
  /\ UNCHANGED <<built, submitted, outcome, txStatus>>
  /\ ScriptOnly

\* approve(multivault, DEPOSIT_AMOUNT).build_transaction(...): no allowance is read.
D_BuildApprove ==
  /\ op = "deposit" /\ pc = "D_approve_build"
  /\ BuildTransaction("approve", DEPOSIT_AMOUNT, 0, "D_approve_send")
  /\ UNCHANGED txStatus
  /\ ScriptOnly

\* Sign and send the approval; the script goes on without waiting for it.
D_SendApprove ==
  /\ op = "deposit" /\ pc = "D_approve_send"
  /\ SendRawTransaction("D_deposit_build")
  /\ ScriptOnly

\* deposit(account, TERM_ID, CURVE_ID, min_shares).build_transaction(...); the
\* ledger takes DEPOSIT_AMOUNT of the approved tokens.
D_BuildDeposit ==
  /\ op = "deposit" /\ pc = "D_deposit_build"
  /\ BuildVaultTransaction("deposit", TERM_ID, CURVE_ID, DEPOSIT_AMOUNT, local.min_bound,
                           "D_deposit_send")
  /\ UNCHANGED txStatus
  /\ ScriptOnly

D_SendDeposit ==
  /\ op = "deposit" /\ pc = "D_deposit_send"
  /\ SendRawTransaction("D_deposit_wait")
  /\ ScriptOnly

\* receipt = wait_for_transaction_receipt(tx_hash), "Confirmed in block".
D_WaitDeposit ==
  /\ op = "deposit" /\ pc = "D_deposit_wait"
  /\ IF ReceiptReady(local.tx_hash)
       THEN /\ local' = [local EXCEPT !.receipt = txStatus[local.tx_hash]]
            /\ pc' = "D_new_shares"
            /\ UNCHANGED outcome
       ELSE /\ Raise("TimeExhausted")
            /\ UNCHANGED local
  /\ UNCHANGED <<built, submitted, txStatus>>
  /\ ScriptOnly

\* new_shares = getShares(...), "Shares added".
D_ReadNewShares ==
  /\ op = "deposit" /\ pc = "D_new_shares"
  /\ local' = [local EXCEPT !.new_shares = vaultShares]
  /\ Return("Success")
  /\ UNCHANGED <<built, submitted, txStatus>>
  /\ ScriptOnly

Deposit ==
  \/ D_CheckExists \/ D_ReadShares \/ D_Preview
  \/ D_BuildApprove \/ D_SendApprove
  \/ D_BuildDeposit \/ D_SendDeposit \/ D_WaitDeposit \/ D_ReadNewShares

\* ---------------------------------------------------------- redeem-shares.py
\* The clamp left out: the configured amount whatever the balance.
ClampSharesRequested(requested, current) == requested

\* shares_to_redeem = min(SHARES_TO_REDEEM, current_shares)
ClampShares(requested, current) == Min(requested, current)

\* current_shares = getShares(...); "No shares to redeem"; the clamp.
R_ReadShares ==
  /\ op = "redeem" /\ pc = "start"
  /\ local' = [local EXCEPT !.current_shares = vaultShares,
                            !.shares_to_redeem =
                               IF vaultShares = 0 THEN 0
                               ELSE ClampShares(SHARES_TO_REDEEM, vaultShares)]
  /\ IF vaultShares = 0
       THEN Return("NoShares")
       ELSE pc' = "R_preview" /\ UNCHANGED outcome
  /\ UNCHANGED <<built, submitted, txStatus>>
  /\ ScriptOnly

\* The preview asked for the configured number of shares, not the clamped one.
R_PreviewRequested ==
  /\ op = "redeem" /\ pc = "R_preview"
  /\ local' = [local EXCEPT !.previewed = <<TERM_ID, CURVE_ID, SHARES_TO_REDEEM>>,
                            !.expected = previewRedeem(SHARES_TO_REDEEM),
                            !.min_bound = SlippageBound(previewRedeem(SHARES_TO_REDEEM),
                                                        slippageBps)]
  /\ pc' = "R_redeem_build"
  /\ UNCHANGED <<built, submitted, outcome, txStatus>>
  /\ ScriptOnly

\* expected_assets, _ = previewRedeem(TERM_ID, CURVE_ID, shares_to_redeem); min_assets.
R_Preview ==
  /\ op = "redeem" /\ pc = "R_preview"
  /\ local' = [local EXCEPT !.previewed = <<TERM_ID, CURVE_ID, local.shares_to_redeem>>,
                            !.expected = previewRedeem(local.shares_to_redeem),
                            !.min_bound = SlippageBound(previewRedeem(local.shares_to_redeem),
                                                        slippageBps)]
  /\ pc' = "R_redeem_build"
  /\ UNCHANGED <<built, submitted, outcome, txStatus>>
  /\ ScriptOnly

\* redeem(account, TERM_ID, CURVE_ID, shares_to_redeem, min_assets).build_transaction(...)
R_BuildRedeem ==
  /\ op = "redeem" /\ pc = "R_redeem_build"
  /\ BuildVaultTransaction("redeem", TERM_ID, CURVE_ID, local.shares_to_redeem,
                           local.min_bound, "R_redeem_send")
  /\ UNCHANGED txStatus
  /\ ScriptOnly

R_SendRedeem ==
  /\ op = "redeem" /\ pc = "R_redeem_send"
  /\ SendRawTransaction("R_redeem_wait")
  /\ ScriptOnly

\* A wait that has no timeout: it returns only once the receipt is there.
R_WaitRedeemBlocking ==
  /\ op = "redeem" /\ pc = "R_redeem_wait"
  /\ ReceiptReady(local.tx_hash)
  /\ local' = [local EXCEPT !.receipt = txStatus[local.tx_hash]]
  /\ pc' = "R_new_shares"
  /\ UNCHANGED <<built, submitted, txStatus, outcome>>
  /\ ScriptOnly

\* receipt = wait_for_transaction_receipt(tx_hash), "Confirmed in block".
R_WaitRedeem ==
  /\ op = "redeem" /\ pc = "R_redeem_wait"
  /\ IF ReceiptReady(local.tx_hash)
       THEN /\ local' = [local EXCEPT !.receipt = txStatus[local.tx_hash]]
            /\ pc' = "R_new_shares"
            /\ UNCHANGED outcome
       ELSE /\ Raise("TimeExhausted")
            /\ UNCHANGED local
  /\ UNCHANGED <<built, submitted, txStatus>>
  /\ ScriptOnly

\* new_shares = getShares(...), "Remaining shares".
R_ReadNewShares ==
  /\ op = "redeem" /\ pc = "R_new_shares"
  /\ local' = [local EXCEPT !.new_shares = vaultShares]
  /\ Return("Success")
  /\ UNCHANGED <<built, submitted, txStatus>>
  /\ ScriptOnly

Redeem ==
  \/ R_ReadShares \/ R_Preview
  \/ R_BuildRedeem \/ R_SendRedeem \/ R_WaitRedeem \/ R_ReadNewShares

\* ---------------------------------------------------------- claim-rewards.py
\* user_info = getUserInfo(account); "No bonded balance".
C_ReadUserInfo ==
  /\ op = "claimRewards" /\ pc = "start"
  /\ local' = [local EXCEPT !.bonded_balance = bondedBalance]
  /\ IF bondedBalance = 0
       THEN Return("NoBondedBalance")
       ELSE pc' = "C_claimable" /\ UNCHANGED outcome
  /\ UNCHANGED <<built, submitted, txStatus>>
  /\ ScriptOnly

\* The test of the claimable amount left out.
C_ReadClaimableUnchecked ==
  /\ op = "claimRewards" /\ pc = "C_claimable"
  /\ local' = [local EXCEPT !.claimable = claimableRewards]
  /\ pc' = "C_claim_build"
  /\ UNCHANGED <<built, submitted, outcome, txStatus>>
  /\ ScriptOnly

\* claimable = getUserCurrentClaimableRewards(account); "No rewards to claim".
C_ReadClaimable ==
  /\ op = "claimRewards" /\ pc = "C_claimable"
  /\ local' = [local EXCEPT !.claimable = claimableRewards]
  /\ IF claimableRewards = 0
       THEN Return("NoClaimable")
       ELSE pc' = "C_claim_build" /\ UNCHANGED outcome
  /\ UNCHANGED <<built, submitted, txStatus>>
  /\ ScriptOnly

\* claimRewards(account).build_transaction(...)
C_BuildClaim ==
  /\ op = "claimRewards" /\ pc = "C_claim_build"
  /\ BuildTransaction("claimRewards", 0, 0, "C_claim_send")
  /\ UNCHANGED txStatus
  /\ ScriptOnly

C_SendClaim ==
  /\ op = "claimRewards" /\ pc = "C_claim_send"
  /\ SendRawTransaction("C_claim_wait")
  /\ ScriptOnly

\* A script that builds and sends the claim again when it reverted.
C_WaitClaimRetry ==
  /\ op = "claimRewards" /\ pc = "C_claim_wait"
  /\ IF ReceiptReady(local.tx_hash)
       THEN /\ local' = [local EXCEPT !.receipt = txStatus[local.tx_hash]]
            /\ IF txStatus[local.tx_hash] = "failed"
                 THEN pc' = "C_claim_build" /\ UNCHANGED outcome
                 ELSE Return("Success")
       ELSE /\ Raise("TimeExhausted")
            /\ UNCHANGED local
  /\ UNCHANGED <<built, submitted, txStatus>>
  /\ ScriptOnly

\* receipt = wait_for_transaction_receipt(tx_hash), "Confirmed in block", "Claimed".
C_WaitClaim ==
  /\ op = "claimRewards" /\ pc = "C_claim_wait"
  /\ IF ReceiptReady(local.tx_hash)
       THEN /\ local' = [local EXCEPT !.receipt = txStatus[local.tx_hash]]
            /\ Return("Success")
       ELSE /\ Raise("TimeExhausted")
            /\ UNCHANGED local
  /\ UNCHANGED <<built, submitted, txStatus>>
  /\ ScriptOnly

ClaimRewards ==
  \/ C_ReadUserInfo \/ C_ReadClaimable
  \/ C_BuildClaim \/ C_SendClaim \/ C_WaitClaim

\* ========================================================== event-indexer.py
\* ----------------------------------------------------------- configuration
MULTIVAULT_ADDRESS == "0x6E35cF57A41fA15eA0EaE9C33e751b01A784Fe7e"
WS_RPC_URL == "YOUR_INTUITION_WS_RPC_URL"

\* Web3.keccak(text = signature).hex(): a digest, one per signature; the
\* signature stands for its digest.
ATOM_CREATED_TOPIC == "AtomCreated(address,bytes32,bytes,address)"
TRIPLE_CREATED_TOPIC == "TripleCreated(address,bytes32,bytes32,bytes32,bytes32)"
DEPOSITED_TOPIC ==
  "Deposited(address,address,bytes32,uint256,uint256,uint256,uint256,uint256,uint8)"
REDEEMED_TOPIC ==
  "Redeemed(address,address,bytes32,uint256,uint256,uint256,uint256,uint256,uint8)"

\* The answers to "Select mode (1=historical, 2=user, 3=realtime): ".
Modes == {"1", "2", "3", "4"}

\* ------------------------------------------------------------------ bounds
\* The number of logs on the chain.
MaxLogs == 2

\* The heights the chain may be at when main() reads block_number, and the
\* blocks that hold logs: around the 1000 blocks the queries look back.
Heights == {998, 1001, 1002}
LogBlocks == {1, 1002}

\* Text is a sequence of characters. The addresses typed at "Enter user
\* address: " are "0x" and the hex digits of an account, here two digits; a
\* topic is "0x" and TopicDigits digits (64 on the chain).
TopicDigits == 4
UserInputs == {<<"0", "x", "a", "1">>, <<"0", "x", "0", "b">>}

\* The 32-byte word an indexed address parameter of an event is logged as.
AddressWord(a) ==
  CASE a = <<"0", "x", "a", "1">> -> <<"0", "x", "0", "0", "a", "1">>
    [] a = <<"0", "x", "0", "b">> -> <<"0", "x", "0", "0", "0", "b">>

\* The topic lists of the logs: the four events of the vault with their
\* indexed account, an event of another signature, an event without topics.
TopicLists ==
  {<<k, AddressWord(a)>> : k \in {ATOM_CREATED_TOPIC, DEPOSITED_TOPIC}, a \in UserInputs}
    \cup {<<TRIPLE_CREATED_TOPIC, AddressWord(<<"0", "x", "a", "1">>)>>,
          <<REDEEMED_TOPIC, AddressWord(<<"0", "x", "a", "1">>)>>,
          <<"Approval(address,address,uint256)">>,
          <<>>}

LogPool ==
  {[blockNumber |-> b, address |-> MULTIVAULT_ADDRESS, topics |-> t] :
     b \in LogBlocks, t \in TopicLists}
    \cup {[blockNumber |-> 1002, address |-> "0x81cFb09cb44f7184Ad934C09F82000701A4bF672",
           topics |-> <<ATOM_CREATED_TOPIC, AddressWord(<<"0", "x", "a", "1">>)>>]}

\* The logs a chain of height h may hold: in block order, none above h.
StartLogs(h) ==
  {s \in UNION {[1 .. n -> LogPool] : n \in 0 .. MaxLogs} :
     /\ \A i \in 1 .. Len(s) : s[i].blockNumber <= h
     /\ \A i \in 1 .. Len(s) - 1 : s[i].blockNumber <= s[i + 1].blockNumber}

InitIndexer ==
  /\ op \in Modes
  /\ blockNumber \in (IF op = "3" THEN {1} ELSE Heights)
  /\ chainLogs \in (IF op \in {"1", "2"} THEN StartLogs(blockNumber) ELSE {<<>>})
  /\ nodeFilter = NoFilter
  /\ ix \in {[InitIx EXCEPT !.user_address = u] :
               u \in (IF op = "2" THEN UserInputs ELSE {<<>>})}
  /\ pc = "start"
  /\ outcome = "running"
  /\ created = {}
  /\ tokenBalance = 0
  /\ allowance = 0
  /\ txCount = 0
  /\ txStatus = <<>>
  /\ vaultShares = 0
  /\ rate = 1
  /\ atomCost = 0
  /\ tripleCost = 0
  /\ bondedBalance = 0
  /\ claimableRewards = 0
  /\ slippageBps = SLIPPAGE_BPS
  /\ local = InitLocal
  /\ built = NoTx
  /\ submitted = <<>>

\* The indexer sends no transaction and reads no balance.
IndexerOnly ==
  UNCHANGED <<created, tokenBalance, allowance, txCount, txStatus, vaultShares, rate,
              atomCost, tripleCost, bondedBalance, claimableRewards,
              op, slippageBps, local, built, submitted>>

\* ------------------------------------------------------------ the node's answers
\* eth_getLogs: a log matches a filter when its block is in the range, its
\* address is the filter's, and its topics start with the filter's topics.
Matches(log, filter) ==
  /\ filter.fromBlock <= log.blockNumber
  /\ log.blockNumber <= filter.toBlock
  /\ log.address = filter.address
  /\ Len(log.topics) >= Len(filter.topics)
  /\ \A i \in 1 .. Len(filter.topics) : log.topics[i] = filter.topics[i]

\* w3.eth.get_logs(filter): the matching logs in ledger order.
GetLogs(filter) ==
  LET Test(log) == Matches(log, filter)
  IN SelectSeq(chainLogs, Test)

\* event_filter.get_new_entries(): the logs of the filter's address that came
\* since the filter was installed or last polled.
GetNewEntries ==
  LET Test(log) == log.address = MULTIVAULT_ADDRESS
  IN SelectSeq(SubSeq(chainLogs, nodeFilter.next, Len(chainLogs)), Test)

\* s.zfill(width)
RECURSIVE ZFill(_, _)
ZFill(s, width) == IF Len(s) >= width THEN s ELSE ZFill(<<"0">> \o s, width)

\* user_topic = '0x' + user_address[2:].zfill(64)
UserTopic(user_address) ==
  <<"0", "x">> \o ZFill(SubSeq(user_address, 3, Len(user_address)), TopicDigits)

\* One range query of query_historical_events / query_user_events: the filter
\* over [from_block, to_block] at the vault's address with the given topics, and
\* events[key] = w3.eth.get_logs(filter). The node refuses a negative block.
RangeQuery(key, topics, next) ==
  LET filter == [fromBlock |-> ix.from_block, toBlock |-> ix.to_block,
                 address |-> MULTIVAULT_ADDRESS, topics |-> topics]
  IN IF filter.fromBlock < 0
       THEN /\ ix' = [ix EXCEPT !.queries = Append(@, filter)]
            /\ Raise("RpcError")
       ELSE /\ ix' = [ix EXCEPT !.queries = Append(@, filter),
                                !.events[key] = GetLogs(filter)]
            /\ pc' = next
            /\ UNCHANGED outcome

\* ------------------------------------------------------------ mode 1: historical
\* main: current_block = w3.eth.block_number, from_block = current_block - 1000;
\* query_historical_events: the events dictionary.
M_Historical ==
  /\ op = "1" /\ pc = "start"
  /\ ix' = [ix EXCEPT !.from_block = blockNumber - 1000,
                      !.to_block = blockNumber,
                      !.events = [atoms_created |-> <<>>, triples_created |-> <<>>,
                                  deposits |-> <<>>, redemptions |-> <<>>]]
  /\ pc' = "H_atoms"
  /\ UNCHANGED <<outcome, blockNumber, chainLogs, nodeFilter>>
  /\ IndexerOnly

H_QueryAtoms ==
  /\ op = "1" /\ pc = "H_atoms"
  /\ RangeQuery("atoms_created", <<ATOM_CREATED_TOPIC>>, "H_triples")
  /\ UNCHANGED <<blockNumber, chainLogs, nodeFilter>>
  /\ IndexerOnly

\* The second query asks for Deposited once more.
H_QueryTriplesAsDeposits ==
  /\ op = "1" /\ pc = "H_triples"
  /\ RangeQuery("triples_created", <<DEPOSITED_TOPIC>>, "H_deposits")
  /\ UNCHANGED <<blockNumber, chainLogs, nodeFilter>>
  /\ IndexerOnly

H_QueryTriples ==
  /\ op = "1" /\ pc = "H_triples"
  /\ RangeQuery("triples_created", <<TRIPLE_CREATED_TOPIC>>, "H_deposits")
  /\ UNCHANGED <<blockNumber, chainLogs, nodeFilter>>
  /\ IndexerOnly

H_QueryDeposits ==
  /\ op = "1" /\ pc = "H_deposits"
  /\ RangeQuery("deposits", <<DEPOSITED_TOPIC>>, "H_redemptions")
  /\ UNCHANGED <<blockNumber, chainLogs, nodeFilter>>
  /\ IndexerOnly

\* main: the first AtomCreated event is displayed, if there is one.
FirstAtom(events) ==
  IF events.atoms_created # <<>> THEN <<Head(events.atoms_created)>> ELSE <<>>

\* The last query; query_historical_events returns and main displays.
H_QueryRedemptions ==
  /\ op = "1" /\ pc = "H_redemptions"
  /\ LET filter == [fromBlock |-> ix.from_block, toBlock |-> ix.to_block,
                    address |-> MULTIVAULT_ADDRESS, topics |-> <<REDEEMED_TOPIC>>]
     IN /\ ix' = [ix EXCEPT !.queries = Append(@, filter),
                            !.events["redemptions"] = GetLogs(filter),
                            !.first_atom = FirstAtom(ix.events)]
        /\ Return("Success")
  /\ UNCHANGED <<blockNumber, chainLogs, nodeFilter>>
  /\ IndexerOnly

Historical ==
  \/ M_Historical
  \/ H_QueryAtoms
  \/ H_QueryTriples
  \/ H_QueryDeposits
  \/ H_QueryRedemptions

\* ------------------------------------------------------------ mode 2: user
\* main: user_address = input(...), current_block, from_block;
\* query_user_events: user_topic and the events dictionary (three keys).
M_User ==
  /\ op = "2" /\ pc = "start"
  /\ ix' = [ix EXCEPT !.from_block = blockNumber - 1000,
                      !.to_block = blockNumber,
                      !.events = [atoms_created |-> <<>>, deposits |-> <<>>,
                                  redemptions |-> <<>>]]
  /\ pc' = "U_atoms"
  /\ UNCHANGED <<outcome, blockNumber, chainLogs, nodeFilter>>
  /\ IndexerOnly

\* topics: [ATOM_CREATED_TOPIC, user_topic]
U_QueryAtoms ==
  /\ op = "2" /\ pc = "U_atoms"
  /\ RangeQuery("atoms_created", <<ATOM_CREATED_TOPIC, UserTopic(ix.user_address)>>,
                "U_deposits")
  /\ UNCHANGED <<blockNumber, chainLogs, nodeFilter>>
  /\ IndexerOnly

\* topics: [DEPOSITED_TOPIC, user_topic]
U_QueryDeposits ==
  /\ op = "2" /\ pc = "U_deposits"
  /\ RangeQuery("deposits", <<DEPOSITED_TOPIC, UserTopic(ix.user_address)>>,
                "U_redemptions")
  /\ UNCHANGED <<blockNumber, chainLogs, nodeFilter>>
  /\ IndexerOnly

\* topics: [REDEEMED_TOPIC, user_topic]; query_user_events and main return.
U_QueryRedemptions ==
  /\ op = "2" /\ pc = "U_redemptions"
  /\ LET filter == [fromBlock |-> ix.from_block, toBlock |-> ix.to_block,
                    address |-> MULTIVAULT_ADDRESS,
                    topics |-> <<REDEEMED_TOPIC, UserTopic(ix.user_address)>>]
     IN /\ ix' = [ix EXCEPT !.queries = Append(@, filter),
                            !.events["redemptions"] = GetLogs(filter)]
        /\ Return("Success")
  /\ UNCHANGED <<blockNumber, chainLogs, nodeFilter>>
  /\ IndexerOnly

UserQuery ==
  \/ M_User
  \/ U_QueryAtoms
  \/ U_QueryDeposits
  \/ U_QueryRedemptions

\* ------------------------------------------------------------ mode 3: realtime
\* main: "if not WS_RPC_URL: ... return", else monitor_real_time_events.
M_Realtime ==
  /\ op = "3" /\ pc = "start"
  /\ IF WS_RPC_URL = ""
       THEN Return("NotConfigured")
       ELSE pc' = "L_install" /\ UNCHANGED outcome
  /\ UNCHANGED <<blockNumber, chainLogs, nodeFilter, ix>>
  /\ IndexerOnly

\* event_filter = w3.eth.filter({'address': MULTIVAULT_ADDRESS}): from now on.
L_Install ==
  /\ op = "3" /\ pc = "L_install"
  /\ nodeFilter' = [installed |-> TRUE, first |-> Len(chainLogs) + 1,
                    next |-> Len(chainLogs) + 1]
  /\ pc' = "L_poll"
  /\ UNCHANGED <<outcome, blockNumber, chainLogs, ix>>
  /\ IndexerOnly

\* new_entries = event_filter.get_new_entries(); with nothing new the for loop
\* is over at once.
L_Poll ==
  /\ op = "3" /\ pc = "L_poll"
  /\ ix' = [ix EXCEPT !.batch = GetNewEntries]
  /\ nodeFilter' = [nodeFilter EXCEPT !.next = Len(chainLogs) + 1]
  /\ pc' = IF GetNewEntries = <<>> THEN "L_sleep" ELSE "L_dispatch"
  /\ UNCHANGED <<outcome, blockNumber, chainLogs>>
  /\ IndexerOnly

\* The chain with the test for Deposited left out.
DispatchNoDeposited(topic) ==
  IF topic = ATOM_CREATED_TOPIC THEN <<"AtomCreated">>
  ELSE IF topic = TRIPLE_CREATED_TOPIC THEN <<"TripleCreated">>
  ELSE IF topic = REDEEMED_TOPIC THEN <<"Redeemed">>
  ELSE <<>>

\* The if / elif chain over the leading topic: what is printed for it.
Dispatch(topic) ==
  IF topic = ATOM_CREATED_TOPIC THEN <<"AtomCreated">>
  ELSE IF topic = TRIPLE_CREATED_TOPIC THEN <<"TripleCreated">>
  ELSE IF topic = DEPOSITED_TOPIC THEN <<"Deposited">>
  ELSE IF topic = REDEEMED_TOPIC THEN <<"Redeemed">>
  ELSE <<>>

\* One turn of "for event in new_entries": topic = event['topics'][0].hex()
\* raises IndexError for a log without topics.
L_Dispatch ==
  /\ op = "3" /\ pc = "L_dispatch"
  /\ LET event == Head(ix.batch)
     IN IF event.topics = <<>>
          THEN /\ Raise("IndexError")
               /\ UNCHANGED ix
          ELSE /\ ix' = [ix EXCEPT !.printed = @ \o Dispatch(event.topics[1]),
                                   !.batch = Tail(@)]
               /\ pc' = IF Tail(ix.batch) = <<>> THEN "L_sleep" ELSE "L_dispatch"
               /\ UNCHANGED outcome
  /\ UNCHANGED <<blockNumber, chainLogs, nodeFilter>>
  /\ IndexerOnly

\* time.sleep(2), and round the loop.
L_Sleep ==
  /\ op = "3" /\ pc = "L_sleep"
  /\ pc' = "L_poll"
  /\ UNCHANGED <<outcome, blockNumber, chainLogs, nodeFilter, ix>>
  /\ IndexerOnly

LoopPcs == {"L_poll", "L_dispatch", "L_sleep"}

\* Ctrl+C. Inside the try of monitor_real_time_events it is caught: "Stopping
\* event monitor..." and the function returns; the filter is left as it is.
\* Anywhere else it ends the process (it is no Exception for __main__'s except).
KeyboardInterrupt ==
  /\ pc # "done"
  /\ pc' = "done"
  /\ outcome' = IF op = "3" /\ pc \in LoopPcs THEN "Stopped" ELSE "KeyboardInterrupt"
  /\ ix' = [ix EXCEPT !.interrupted = TRUE]
  /\ UNCHANGED <<blockNumber, chainLogs, nodeFilter>>
  /\ IndexerOnly

Realtime ==
  \/ M_Realtime
  \/ L_Install
  \/ L_Poll
  \/ L_Dispatch
  \/ L_Sleep

\* main: any other answer, "Invalid mode selected".
M_Invalid ==
  /\ op \notin {"1", "2", "3"} /\ pc = "start"
  /\ Return("InvalidMode")
  /\ UNCHANGED <<blockNumber, chainLogs, nodeFilter, ix>>
  /\ IndexerOnly

\* The chain goes on while the monitor runs: a block with one more log.
EmitLog ==
  /\ op = "3" /\ pc # "done"
  /\ Len(chainLogs) < MaxLogs
  /\ \E log \in LogPool :
       /\ log.blockNumber >= blockNumber
       /\ chainLogs' = Append(chainLogs, log)
       /\ blockNumber' = log.blockNumber
  /\ UNCHANGED <<pc, outcome, nodeFilter, ix>>
  /\ IndexerOnly

NextIndexer ==
  \/ Historical
  \/ UserQuery
  \/ Realtime
  \/ M_Invalid
  \/ KeyboardInterrupt
  \/ EmitLog

SpecIndexer == InitIndexer /\ [][NextIndexer]_vars

Next ==
  \/ CreateAtom
  \/ CreateTriple
  \/ Deposit
  \/ Redeem
  \/ ClaimRewards
  \/ Include
  \/ OtherCreates
  \/ PriceMoves

Spec == Init /\ [][Next]_vars

\* The interpreter runs the script on: a step of the script that can be taken is
\* taken (every RPC call returns or raises, web3's wait after its timeout). The
\* ledger is under no obligation to include anything.
ScriptStep == CreateAtom \/ CreateTriple \/ Deposit \/ Redeem \/ ClaimRewards

SpecLive == Spec /\ WF_vars(ScriptStep)

\* ============================================================== properties
\* The hashes of the transactions of the given kinds the script has sent.
Sent(kinds) == {h \in 1 .. Len(submitted) : submitted[h].kind \in kinds}

\* This step sends a transaction of one of the given kinds.
Sends(kinds) ==
  /\ Len(submitted') = Len(submitted) + 1
  /\ submitted'[Len(submitted')].kind \in kinds

AllowanceKinds == {"createAtoms", "createTriples", "deposit"}

\* C1: in createAtom, createTriple and deposit no approval transaction is sent
\* when the owner's allowance for the vault contract is already at least the
\* required amount.
C1_NoApprovalWhenAllowanceSuffices ==
  [][Sends({"approve"}) => allowance < Required(op)]_vars

\* C2: when an approval was sent, the value-moving transaction is built and sent
\* only after the script has seen the approval confirmed; after an approval that
\* reverted or was never confirmed there is no value-moving transaction.
C2_ValueOnlyAfterConfirmedApproval ==
  (Sent({"approve"}) # {} /\ (Sent(ValueKinds) # {} \/ built.kind \in ValueKinds))
    => local.approve_receipt = "success"

\* C3: the nonce read for the value-moving transaction differs from the nonce of
\* the approval sent just before it, and no two transactions the script sent
\* carry the same nonce.
C3_DistinctNonces ==
  /\ \A h \in Sent({"approve"}) :
       built.kind \in ValueKinds => built.nonce # submitted[h].nonce
  /\ \A g, h \in 1 .. Len(submitted) :
       g # h => submitted[g].nonce # submitted[h].nonce

\* C4: at the moment createAtoms, createTriples or deposit is sent, the ledger's
\* allowance of the owner for the vault contract is at least the required amount.
C4_AllowanceCoversSpend ==
  [][Sends(AllowanceKinds) => allowance >= Required(op)]_vars

\* C5: once the script has read a receipt with the failure status, it ends in
\* the TransactionReverted error and never as confirmed or successful.
C5_RevertedReceiptIsAnError ==
  (local.receipt = "failed" \/ local.approve_receipt = "failed")
    => /\ outcome # "Success"
       /\ pc = "done" => outcome = "TransactionReverted"

\* C6: the slippage bound (min_shares of deposit, min_assets of redeem) is at
\* most the previewed amount, and equals it when the tolerance is 0.
C6_BoundAtMostExpected ==
  op \in {"deposit", "redeem"}
    => /\ local.min_bound <= local.expected
       /\ slippageBps = 0 => local.min_bound = local.expected

C6_Witness ==
  /\ op \in {"deposit", "redeem"}
  /\ pc \notin {"start", "D_shares", "D_preview", "R_preview"}
  /\ slippageBps > 0
  /\ local.expected > 0
  /\ local.min_bound < local.expected

\* C7: the bound argument of the deposit (redeem) the script sends is
\* floor(expected * (10000 - slippageBps) / 10000) of the amount its preview
\* returned; 1000 previewed at 100 bps gives 990.
C7_BoundIsFlooredFormula ==
  \A h \in Sent({"deposit", "redeem"}) :
    /\ 10000 * submitted[h].bound <= local.expected * (10000 - slippageBps)
    /\ local.expected * (10000 - slippageBps) < 10000 * (submitted[h].bound + 1)
    /\ (local.expected = 1000 /\ slippageBps = 100) => submitted[h].bound = 990

C7_Witness ==
  \E h \in Sent({"deposit"}) :
    /\ local.expected = 995
    /\ slippageBps = 100
    /\ submitted[h].bound = 985

\* C8: redeem never sends more shares than the balance it read: the amount is
\* min(SHARES_TO_REDEEM, current_shares); after a balance of 0 it ends with no
\* transaction sent.
C8_RedeemClamped ==
  op = "redeem"
    => /\ \A h \in Sent({"redeem"}) :
            /\ submitted[h].amount <= local.current_shares
            /\ submitted[h].amount <= SHARES_TO_REDEEM
            /\ submitted[h].amount \in {local.current_shares, SHARES_TO_REDEEM}
       /\ local.current_shares = 0 =>
            /\ submitted = <<>>
            /\ built = NoTx
            /\ pc \in {"start", "done"}
            /\ pc = "done" => outcome = "NoShares"

C8_Witness ==
  /\ op = "redeem"
  /\ \E h \in Sent({"redeem"}) :
       /\ local.current_shares < SHARES_TO_REDEEM
       /\ submitted[h].amount = local.current_shares

\* C9: createTriple with a subject, predicate or object that is not created ends
\* in an error before any transaction is built or sent.
C9_MissingAtomFailsFirst ==
  (op = "createTriple" /\ \E j \in 1 .. 3 : ~ isTermCreated(TripleRefs[j]))
    => /\ pc \in {"start", "done"}
       /\ pc = "done" => outcome = "AtomMissing"
       /\ built = NoTx
       /\ submitted = <<>>

C9_Witness ==
  /\ op = "createTriple"
  /\ isTermCreated(SUBJECT_ID) /\ isTermCreated(PREDICATE_ID)
  /\ ~ isTermCreated(OBJECT_ID)
  /\ pc = "done"
  /\ outcome = "AtomMissing"

\* The id whose creation the script is about.
DerivedId ==
  IF op = "createAtom" THEN calculateAtomId(ATOM_DATA)
  ELSE calculateTripleId(SUBJECT_ID, PREDICATE_ID, OBJECT_ID)

\* C10: createAtom and createTriple run for an id that is already created end
\* as the no-op "already exists", not as an error, with no transaction sent,
\* whatever the balance and the allowance of the account.
C10_ExistingIdIsNoOp ==
  [][(/\ op \in {"createAtom", "createTriple"}
      /\ isTermCreated(DerivedId)
      /\ submitted = <<>>
      /\ pc # "done"
      /\ pc' = "done")
     => (outcome' = "AlreadyExists" /\ submitted' = <<>>)]_vars

\* C11: claimRewards that reads a bonded balance of 0, or a claimable amount of
\* 0, returns at once (a warning, no error) with no transaction built or sent.
C11_EmptyClaimShortCircuits ==
  op = "claimRewards"
    => /\ (pc # "start" /\ local.bonded_balance = 0)
            => (pc = "done" /\ outcome = "NoBondedBalance")
       /\ (pc \notin {"start", "C_claimable"} /\ local.bonded_balance > 0
             /\ local.claimable = 0)
            => (pc = "done" /\ outcome = "NoClaimable")
       /\ (bondedBalance = 0 \/ local.bonded_balance = 0 \/ local.claimable = 0)
            => (submitted = <<>> /\ built = NoTx)

C11_Witness ==
  /\ op = "claimRewards"
  /\ bondedBalance > 0
  /\ claimableRewards = 0
  /\ pc = "done"
  /\ outcome = "NoClaimable"
  /\ submitted = <<>>

\* C12: createAtom, createTriple or deposit run by an account whose token
\* balance is below the total the operation requires (and that no value
\* transaction of this run has yet been spent from) builds and sends no
\* transaction, and ends in an error outcome, the insufficient-funds one unless
\* an earlier check already ended the run.
C12_LowBalanceFailsFirst ==
  (/\ op \in {"createAtom", "createTriple", "deposit"}
   /\ tokenBalance < Required(op)
   /\ \A h \in Sent(ValueKinds) : txStatus[h] # "success")
    => /\ submitted = <<>>
       /\ built = NoTx
       /\ pc = "done" => outcome \in {"InsufficientBalance", "AtomMissing",
                                      "VaultMissing", "AlreadyExists"}

\* C13: a deposit that ends reported as confirmed has credited at least
\* min_shares shares to the depositor.
C13_ConfirmedDepositMeetsBound ==
  (op = "deposit" /\ pc = "done" /\ outcome = "Success")
    => \A h \in Sent({"deposit"}) :
         local.new_shares - local.current_shares >= submitted[h].bound

\* The positions at which a built transaction is about to be signed and sent,
\* and those at which the script waits for the receipt of the one it just sent.
SendPcs == {"A_approve_send", "A_create_send", "T_approve_send", "T_create_send",
            "D_approve_send", "D_deposit_send", "R_redeem_send", "C_claim_send"}

WaitPcs == {"A_approve_wait", "A_create_wait", "T_create_wait",
            "D_deposit_wait", "R_redeem_wait", "C_claim_wait"}

\* C19: a transaction is built, then signed and sent, then awaited: a built
\* transaction exists only just before its send, and while a sent transaction
\* is neither included nor replaced the script is waiting for that very
\* transaction (or has given the wait up with a timeout); it has not finished
\* otherwise nor gone on to build or send the next transaction.
C19_SubmittedIsAwaited ==
  /\ built # NoTx => pc \in SendPcs
  /\ \A h \in 1 .. Len(submitted) :
       txStatus[h] = "pending"
         => /\ local.tx_hash = h
            /\ \/ pc \in WaitPcs
               \/ pc = "done" /\ outcome = "TimeExhausted"

\* C18: an operation that has sent a transaction comes to its end even when the
\* ledger never includes the transaction: the wait for a receipt that does not
\* come ends the run with the timeout error, and that error is raised only for
\* a transaction without receipt, never for one that was included and reverted.
C18_WaitStep ==
  /\ (pc \in WaitPcs /\ pc' # pc /\ ~ ReceiptReady(local.tx_hash))
       => (pc' = "done" /\ outcome' = "TimeExhausted")
  /\ (outcome # "TimeExhausted" /\ outcome' = "TimeExhausted")
       => (pc \in WaitPcs /\ ~ ReceiptReady(local.tx_hash) /\ txStatus' = txStatus)

C18_SubmittedOperationTerminates ==
  /\ (submitted # <<>>) ~> (pc = "done")
  /\ [][C18_WaitStep]_vars

C18_Witness ==
  /\ pc = "done" /\ outcome = "TimeExhausted"
  /\ submitted # <<>> /\ txStatus[local.tx_hash] = "pending"

\* C20: a deposit or redeem transaction is built and sent only after this run
\* has got a preview back for the same term id, curve id and amount; for redeem
\* the number of shares previewed is the number of shares redeemed.
C20_CommitFollowsItsPreview ==
  /\ built.kind \in {"deposit", "redeem"}
       => local.previewed = <<built.term, built.curve, built.amount>>
  /\ \A h \in Sent({"deposit", "redeem"}) :
       local.previewed = <<submitted[h].term, submitted[h].curve, submitted[h].amount>>

C20_Witness ==
  /\ op = "redeem" /\ Sent({"redeem"}) # {}
  /\ \E h \in Sent({"redeem"}) :
       /\ submitted[h].amount < SHARES_TO_REDEEM
       /\ local.previewed = <<TERM_ID, CURVE_ID, submitted[h].amount>>

\* ---------------------------------------------------------- event-indexer.py
\* The four event kinds: the leading topic and the key of the returned mapping.
KindTopics == <<ATOM_CREATED_TOPIC, TRIPLE_CREATED_TOPIC, DEPOSITED_TOPIC, REDEEMED_TOPIC>>
KindKeys == <<"atoms_created", "triples_created", "deposits", "redemptions">>

\* The queries issued so far whose topic filter is the given one.
QueriesFor(topics) == {i \in 1 .. Len(ix.queries) : ix.queries[i].topics = topics}

\* Every query issued is over [from_block, to_block] at the vault's address.
QueriesOverRange ==
  \A i \in 1 .. Len(ix.queries) :
    /\ ix.queries[i].fromBlock = ix.from_block
    /\ ix.queries[i].toBlock = ix.to_block
    /\ ix.queries[i].address = MULTIVAULT_ADDRESS

\* The logs of the vault in the queried range whose leading topic is t, in
\* ledger order.
LedgerLogsOfKind(t) ==
  LET Test(log) == /\ ix.from_block <= log.blockNumber
                   /\ log.blockNumber <= ix.to_block
                   /\ log.address = MULTIVAULT_ADDRESS
                   /\ log.topics # <<>>
                   /\ log.topics[1] = t
  IN SelectSeq(chainLogs, Test)

\* C14: a historical query that returns has issued exactly four range queries,
\* one for each of AtomCreated, TripleCreated, Deposited and Redeemed, each over
\* [from_block, to_block] at the vault's address, and the sequence it returns
\* for a kind is the ledger's sequence of logs of that kind in the range: same
\* length, same order.
C14_OneRangeQueryPerKind ==
  (op = "1" /\ pc = "done" /\ outcome = "Success")
    => /\ Len(ix.queries) = 4
       /\ QueriesOverRange
       /\ \A k \in 1 .. 4 :
            /\ Cardinality(QueriesFor(<<KindTopics[k]>>)) = 1
            /\ ix.events[KindKeys[k]] = LedgerLogsOfKind(KindTopics[k])

C14_Witness ==
  /\ op = "1" /\ pc = "done" /\ outcome = "Success"
  /\ Len(ix.events.atoms_created) = 2
  /\ ix.events.atoms_created[1] # ix.events.atoms_created[2]
  /\ ix.events.atoms_created = chainLogs

\* C15: a user query that returns has issued one range query for each of the
\* four kinds AtomCreated, TripleCreated, Deposited and Redeemed, each with the
\* account's word as second topic.
C15_UserQueryCoversFourKinds ==
  (op = "2" /\ pc = "done" /\ outcome = "Success")
    => /\ QueriesOverRange
       /\ \A k \in 1 .. 4 :
            Cardinality(QueriesFor(<<KindTopics[k], AddressWord(ix.user_address)>>)) = 1

\* What a leading topic is to be reported as.
KindOf(topic) ==
  CASE topic = ATOM_CREATED_TOPIC -> <<"AtomCreated">>
    [] topic = TRIPLE_CREATED_TOPIC -> <<"TripleCreated">>
    [] topic = DEPOSITED_TOPIC -> <<"Deposited">>
    [] topic = REDEEMED_TOPIC -> <<"Redeemed">>
    [] OTHER -> <<>>

RECURSIVE KindsOf(_)
KindsOf(logs) ==
  IF logs = <<>> THEN <<>> ELSE KindOf(Head(logs).topics[1]) \o KindsOf(Tail(logs))

\* The logs the filter has delivered, and those of them the loop is through with.
Delivered ==
  LET Test(log) == log.address = MULTIVAULT_ADDRESS
  IN SelectSeq(SubSeq(chainLogs, nodeFilter.first, nodeFilter.next - 1), Test)

Handled == SubSeq(Delivered, 1, Len(Delivered) - Len(ix.batch))

\* C16: the monitor reports every log it is through with as exactly the kind of
\* its leading topic, in the order of delivery, and reports nothing for a log
\* whose leading topic is none of the four; the turn of the loop for a log with
\* a leading topic reports that one log and leaves the loop running.
C16_Reported ==
  (op = "3" /\ nodeFilter.installed /\ \A i \in 1 .. Len(Handled) : Handled[i].topics # <<>>)
    => ix.printed = KindsOf(Handled)

C16_Turn ==
  (op = "3" /\ pc = "L_dispatch" /\ ix' # ix /\ ~ ix'.interrupted
     /\ Head(ix.batch).topics # <<>>)
    => /\ ix'.printed = ix.printed \o KindOf(Head(ix.batch).topics[1])
       /\ ix'.batch = Tail(ix.batch)
       /\ pc' \in LoopPcs
       /\ outcome' = "running"

C16_DispatchOnLeadingTopic == [] C16_Reported /\ [][C16_Turn]_vars

C16_Witness ==
  /\ op = "3" /\ pc = "L_sleep" /\ outcome = "running"
  /\ Len(Handled) = 2
  /\ Handled[1].topics = <<"Approval(address,address,uint256)">>
  /\ Handled[2].topics # <<>> /\ Handled[2].topics[1] = DEPOSITED_TOPIC
  /\ ix.printed = <<"Deposited">>

\* C17: once Ctrl+C has reached the running monitoring loop, the run is over
\* without an error and the filter it installed is no longer installed.
C17_StopReleasesFilter ==
  (op = "3" /\ ix.interrupted /\ nodeFilter.first > 0)
    => /\ pc = "done"
       /\ outcome = "Stopped"
       /\ ~ nodeFilter.installed

\* ------------------------------------------------------------- the scripts again
\* C21: every approval built or sent approves exactly what the operation
\* requires: the deposit plus the creation cost the run read from the ledger in
\* createAtom and createTriple, the deposit in deposit.
C21_ApprovalIsExact ==
  LET Exact(tx) ==
        tx.kind = "approve"
          => /\ tx.amount = Required(op)
             /\ op \in {"createAtom", "createTriple"} => tx.amount = local.total_required
  IN /\ Exact(built)
     /\ \A h \in 1 .. Len(submitted) : Exact(submitted[h])

C21_Witness ==
  /\ op = "createAtom" /\ atomCost > 0
  /\ \E h \in Sent({"approve"}) : submitted[h].amount = ATOM_DEPOSIT_AMOUNT + atomCost

\* C22: while TERM_ID is not a created term, a deposit run has asked for no
\* preview and has built and sent nothing, and once past its first step it has
\* ended with the error "Vault does not exist".
C22_DepositIntoMissingVaultFails ==
  (op = "deposit" /\ ~ isTermCreated(TERM_ID))
    => /\ local.previewed = <<>>
       /\ built = NoTx
       /\ submitted = <<>>
       /\ pc # "start" => (pc = "done" /\ outcome = "VaultMissing")

C22_Witness ==
  /\ op = "deposit" /\ ~ isTermCreated(TERM_ID)
  /\ pc = "done" /\ outcome = "VaultMissing"
  /\ local.previewed = <<>> /\ submitted = <<>>

\* C23: a createAtom run whose creation receipt has status 1 and holds no
\* AtomCreated event ends in the success outcome.
C23_MissingEventIsNoFailure ==
  (op = "createAtom" /\ pc = "done" /\ local.receipt = "success"
     /\ local.atom_created_event = <<>>)
    => outcome = "Success"

C23_Witness ==
  /\ op = "createAtom" /\ pc = "done" /\ outcome = "Success"
  /\ local.receipt = "success" /\ local.atom_created_event = <<>>
  /\ isTermCreated(ATOM_ID)

\* C24: a run sends at most one approval and at most one value-moving
\* transaction, whatever became of them: nothing is sent a second time.
C24_NothingIsResubmitted ==
  /\ Cardinality(Sent({"approve"})) <= 1
  /\ Cardinality(Sent(ValueKinds)) <= 1

\* A run that is over after its one value transaction reverted.
C24_Witness ==
  /\ pc = "done" /\ outcome = "Success"
  /\ Cardinality(Sent(ValueKinds)) = 1
  /\ \E h \in Sent(ValueKinds) : txStatus[h] = "failed" /\ local.receipt = "failed"

CreationKinds == {"createAtoms", "createTriples"}

\* C25 as claimed: the step that sends a creation transaction is never taken
\* while the id to create is a created term.
C25_NeverSubmitsForCreatedId ==
  [][Sends(CreationKinds) => ~ isTermCreated(DerivedId)]_vars

\* C25: createAtom and createTriple build and send a creation transaction only
\* when the run's own existence check answered that the id is not created; a
\* term another account creates after that check is not noticed.
C25_SubmitsOnlyAfterCheckFoundAbsent ==
  /\ built.kind \in CreationKinds => local.term_exists = "absent"
  /\ Sent(CreationKinds) # {} => local.term_exists = "absent"

\* Another account has created the term while this run's creation waits.
C25_Witness ==
  /\ op \in {"createAtom", "createTriple"}
  /\ local.term_exists = "absent" /\ isTermCreated(DerivedId)
  /\ \E h \in Sent(CreationKinds) : txStatus[h] = "pending"

\* C26: whatever the previewed amount and the tolerance setting (above 10000
\* too), the bound the script computes is not negative, and the commit call is
\* never refused for its bound.
C26_BoundIsNonNegative ==
  op \in {"deposit", "redeem"}
    => /\ local.min_bound >= 0
       /\ outcome # "EncodeError"

\* ------------------------------------------------------- event-indexer.py again
\* C27: every range query of the historical and the user mode is over a range
\* with 0 <= fromBlock <= toBlock, at whatever height the chain is.
C27_RangeIsWellFormed ==
  op \in {"1", "2"}
    => \A i \in 1 .. Len(ix.queries) :
         /\ 0 <= ix.queries[i].fromBlock
         /\ ix.queries[i].fromBlock <= ix.queries[i].toBlock

\* C28: the monitoring loop, once running, is ended by Ctrl+C only: no log the
\* filter delivers, one without topics included, ends the run.
C28_OnlyStopEndsTheLoop ==
  (op = "3" /\ nodeFilter.installed /\ pc = "done")
    => (ix.interrupted /\ outcome = "Stopped")


====
